---- MODULE Spec2Model ----
(***************************************************************************)
(* espalier: a flattened tree.  Nodes live in a Vec in pre-order; each     *)
(* node stores its parent's index and the number of its descendants.  The  *)
(* tree is built with push/up, which maintain a stack of open ancestors,   *)
(* and queried with get / descendents / parents / children.                *)
(*                                                                         *)
(* Indices are usize in the source.  The model keeps the width, reduced to *)
(* UsizeBits bits, so that `id + 1` can overflow.  Rust's `+` and `+=` on  *)
(* usize panic on overflow when overflow checks are compiled in (debug     *)
(* profile) and wrap otherwise (release profile): overflow_checks is the   *)
(* build's choice, fixed in Init.                                          *)
(*                                                                         *)
(* Sequences are 1-based in TLA+ and 0-based in Rust: the node with Rust   *)
(* index i is nodes[i + 1].  Option<T> is modelled as a sequence of length *)
(* at most one: None is << >>, Some(x) is << x >>.                         *)
(***************************************************************************)
EXTENDS Integers, Sequences, FiniteSets, TLC

MaxNodes == 4
UsizeBits == 5

RECURSIVE Pow2(_)
Pow2(n) == IF n = 0 THEN 1 ELSE 2 * Pow2(n - 1)

USIZE_MAX == Pow2(UsizeBits) - 1

Usize == 0..USIZE_MAX

\* The payload type V: two distinguishable values.
Values == {0, 1}

\* The ids the queries are called with: every valid index, the first two
\* invalid ones, and the largest usize.
QueryIds == {id \in Usize : id <= MaxNodes + 1 \/ id = USIZE_MAX}

VARIABLES
    nodes,            \* Tree::nodes: Vec<Node<K, V>>
    parent_stack,     \* Tree::parent_stack: Vec<usize>
    overflow_checks,  \* build profile: TRUE = overflow panics, FALSE = wraps
    call,             \* the last call made on the tree and what it returned
    pushed,           \* history: the values passed to push, in call order
    returned,         \* history: the ids push returned, in call order
    open_at_push,     \* history: the parent stack as it was when each push began
    saved,            \* Option: a clone of the tree taken earlier, and what
                      \* the queries returned on it
    pc                \* the number of calls the test builder has made

vars == <<nodes, parent_stack, overflow_checks, call, pushed, returned,
          open_at_push, saved, pc>>

None == << >>
Some(x) == << x >>

Node(v, p, d) == [value |-> v, parent |-> p, num_descendants |-> d]

\* Vec::get / slice::get: bounds-checked indexing.
VecGet(v, i) == IF i < Len(v) THEN Some(v[i + 1]) ELSE None

\* usize addition: a + b with the build's overflow behaviour.
UsizeAdd(a, b) ==
    IF a + b > USIZE_MAX
    THEN [panic |-> overflow_checks, val |-> (a + b) % (USIZE_MAX + 1)]
    ELSE [panic |-> FALSE, val |-> a + b]

------------------------------------------------------------------------------
(* Construction: push and up                                               *)

len == Len(nodes)

is_empty == nodes = << >>

\* Slip: unwrap_or(&0), every root gets parent 0.
push_parent_root_zero(ps, id) == IF ps = << >> THEN 0 ELSE ps[Len(ps)]

\* parent: *self.parent_stack.last().unwrap_or(&id)
push_parent(ps, id) == IF ps = << >> THEN id ELSE ps[Len(ps)]

\* Slip: the node is inserted at the front of the Vec instead of appended.
push_node_front(ns, ps, value) ==
    <<Node(value, push_parent(ps, Len(ns)), 0)>> \o ns

\* Slip: the new node counts itself as a descendant.
push_node_counts_self(ns, ps, value) ==
    Append(ns, Node(value, push_parent(ps, Len(ns)), 1))

\* self.nodes.push(Node { value, parent, num_descendants: 0 })
push_node(ns, ps, value) ==
    Append(ns, Node(value, push_parent(ps, Len(ns)), 0))

\* Slip: only the immediate parent's count is incremented.
increment_parents_top_only(ns, ps) ==
    [i \in 1..Len(ns) |->
        IF ps # << >> /\ ps[Len(ps)] = i - 1
        THEN [ns[i] EXCEPT !.num_descendants = @ + 1]
        ELSE ns[i]]

\* Slip: the first node is taken for the root of every node and counted up
\* on every push, on the stack or not.
increment_parents_and_first(ns, ps) ==
    [i \in 1..Len(ns) |->
        IF (i = 1 /\ Len(ns) > 1) \/ (\E k \in 1..Len(ps) : ps[k] = i - 1 /\ i # 1)
        THEN [ns[i] EXCEPT !.num_descendants = @ + 1]
        ELSE ns[i]]

\* for &parent in self.parent_stack.iter() { self.nodes[parent].num_descendants += 1 }
\* One increment per stack entry; an entry that is no index of ns makes
\* self.nodes[parent] panic.
increment_parents_panics(ns, ps) == \E k \in 1..Len(ps) : ps[k] >= Len(ns)

increment_parents(ns, ps) ==
    [i \in 1..Len(ns) |->
        [ns[i] EXCEPT !.num_descendants =
            @ + Cardinality({k \in 1..Len(ps) : ps[k] = i - 1})]]

\* Slip: the id is read again after the node was appended, self.len(),
\* which is one past the new node.
push_stack_len_after(ps, id) == Append(ps, id + 1)

\* self.parent_stack.push(id)
push_stack(ps, id) == Append(ps, id)

Tree_push(value) ==
    /\ LET id == Len(nodes)
           appended == push_node(nodes, parent_stack, value)
           panics == increment_parents_panics(appended, parent_stack)
       IN  /\ nodes' = increment_parents(appended, parent_stack)
           /\ parent_stack' = IF panics THEN parent_stack
                              ELSE push_stack(parent_stack, id)
           /\ call' = [op |-> "push", arg |-> value, panic |-> panics,
                       ret |-> id]
           /\ pushed' = Append(pushed, value)
           /\ returned' = Append(returned, id)
           /\ open_at_push' = Append(open_at_push, parent_stack)
    /\ UNCHANGED overflow_checks

\* A call of push by a builder that stops at MaxNodes nodes.
push(value) ==
    /\ Len(nodes) < MaxNodes
    /\ Tree_push(value)
    /\ UNCHANGED <<saved, pc>>

\* Slip: an empty stack yields the first node instead of None.
up_ret_or_first(ps) == IF ps = << >> THEN Some(0) ELSE Some(ps[Len(ps)])

\* Slip: the root is never popped, as if the tree had a single root.
up_stack_keep_root(ps) ==
    IF Len(ps) <= 1 THEN ps ELSE SubSeq(ps, 1, Len(ps) - 1)

\* Vec::pop: removes the last element and returns it, or None if empty.
up_stack(ps) == IF ps = << >> THEN ps ELSE SubSeq(ps, 1, Len(ps) - 1)

up_ret(ps) == IF ps = << >> THEN None ELSE Some(ps[Len(ps)])

Tree_up ==
    /\ parent_stack' = up_stack(parent_stack)
    /\ call' = [op |-> "up", arg |-> 0, panic |-> FALSE,
                ret |-> up_ret(parent_stack)]
    /\ UNCHANGED <<nodes, overflow_checks, pushed, returned, open_at_push>>

up ==
    /\ Tree_up
    /\ UNCHANGED <<saved, pc>>

------------------------------------------------------------------------------
(* Lookup and bulk access                                                  *)

get(id) == VecGet(nodes, id)

first == IF nodes = << >> THEN None ELSE Some(nodes[1])

\* Slip: the node on top of the parent stack, the current node, is returned
\* instead of the last node of the Vec.
last_current ==
    IF parent_stack = << >> THEN None
    ELSE VecGet(nodes, parent_stack[Len(parent_stack)])

last == IF nodes = << >> THEN None ELSE Some(nodes[Len(nodes)])

\* iter, into_iter and all hand out the Vec's elements in Vec order.
iter == nodes

into_iter == nodes

all == nodes

\* .get(id).map(|node| node.num_descendants).unwrap_or_default()
num_descendants_or_default(id) ==
    IF id < Len(nodes) THEN nodes[id + 1].num_descendants ELSE 0

\* &self.nodes[from..to]: panics unless from <= to <= len.  A slice is a start
\* and a run of nodes.
slice(from, to) ==
    IF from > to \/ to > Len(nodes)
    THEN [panic |-> TRUE, start |-> 0, items |-> << >>]
    ELSE [panic |-> FALSE, start |-> from,
          items |-> SubSeq(nodes, from + 1, to)]

\* &self.nodes[id + 1..id + 1 + num_descendants]
descendents(id) ==
    LET from == UsizeAdd(id, 1)
        to == UsizeAdd(from.val, num_descendants_or_default(id))
    IN  IF from.panic \/ to.panic
        THEN [panic |-> TRUE, start |-> 0, items |-> << >>]
        ELSE slice(from.val, to.val)

------------------------------------------------------------------------------
(* Traversal iterators                                                     *)

\* Slip: the walk stops before the root instead of at it.
ParentIter_next_before_root(id) ==
    IF id >= Len(nodes) THEN [item |-> None, id |-> id]
    ELSE LET p == nodes[id + 1].parent
         IN  IF p = id \/ p >= Len(nodes) \/ nodes[p + 1].parent = p
             THEN [item |-> None, id |-> id]
             ELSE [item |-> Some(<<p, nodes[p + 1]>>), id |-> p]

\* Slip: no check for the self-parented root, which is then yielded again
\* and again.
ParentIter_next_no_root_check(id) ==
    IF id >= Len(nodes) THEN [item |-> None, id |-> id]
    ELSE LET p == nodes[id + 1].parent
         IN  [item |-> IF p < Len(nodes) THEN Some(<<p, nodes[p + 1]>>)
                       ELSE None,
              id |-> p]

\* ParentIter::next on an iterator whose field id is `id`: the item it
\* returns and the new value of the field.
ParentIter_next(id) ==
    IF id >= Len(nodes) THEN [item |-> None, id |-> id]
    ELSE IF nodes[id + 1].parent = id THEN [item |-> None, id |-> id]
    ELSE LET p == nodes[id + 1].parent
         IN  [item |-> IF p < Len(nodes) THEN Some(<<p, nodes[p + 1]>>)
                       ELSE None,
              id |-> p]

\* The items a consumer gets from parents(id) by calling next until it
\* returns None.  A walk of more than len steps has revisited a node and
\* never ends: diverged.
RECURSIVE ParentIter_collect(_, _)
ParentIter_collect(id, fuel) ==
    LET r == ParentIter_next(id)
    IN  IF r.item = None THEN [diverged |-> FALSE, items |-> << >>]
        ELSE IF fuel = 0 THEN [diverged |-> TRUE, items |-> << >>]
        ELSE LET rest == ParentIter_collect(r.id, fuel - 1)
             IN  [diverged |-> rest.diverged, items |-> r.item \o rest.items]

parents(id) ==
    LET r == ParentIter_collect(id, Len(nodes))
    IN  [panic |-> FALSE, diverged |-> r.diverged, items |-> r.items]

\* Slip: max_id is the end of the block, exclusive, taken as inclusive.
ChildrenIter_new_max_past_end(id) ==
    LET c == UsizeAdd(id, 1)
        m == UsizeAdd(c.val, num_descendants_or_default(id))
    IN  [panic |-> c.panic \/ m.panic, current_id |-> c.val, max_id |-> m.val]

\* Tree::children: ChildrenIter { current_id: id + 1, max_id: id + count }
ChildrenIter_new(id) ==
    LET c == UsizeAdd(id, 1)
        m == UsizeAdd(id, num_descendants_or_default(id))
    IN  [panic |-> c.panic \/ m.panic, current_id |-> c.val, max_id |-> m.val]

\* Slip: the cursor advances by one instead of jumping over the subtree.
ChildrenIter_next_no_jump(it) ==
    IF it.current_id <= it.max_id
    THEN LET node == VecGet(nodes, it.current_id)
             nxt == UsizeAdd(it.current_id, 1)
         IN  [panic |-> nxt.panic,
              item |-> IF node = None THEN None
                       ELSE Some(<<it.current_id, node[1]>>),
              it |-> [it EXCEPT !.current_id = nxt.val]]
    ELSE [panic |-> FALSE, item |-> None, it |-> it]

\* ChildrenIter::next: the item it returns and the iterator afterwards.
ChildrenIter_next(it) ==
    IF it.current_id <= it.max_id
    THEN LET node == VecGet(nodes, it.current_id)
             step == UsizeAdd(num_descendants_or_default(it.current_id), 1)
             nxt == UsizeAdd(it.current_id, step.val)
         IN  [panic |-> step.panic \/ nxt.panic,
              item |-> IF node = None THEN None
                       ELSE Some(<<it.current_id, node[1]>>),
              it |-> [it EXCEPT !.current_id = nxt.val]]
    ELSE [panic |-> FALSE, item |-> None, it |-> it]

RECURSIVE ChildrenIter_collect(_, _)
ChildrenIter_collect(it, fuel) ==
    LET r == ChildrenIter_next(it)
    IN  IF r.panic THEN [panic |-> TRUE, diverged |-> FALSE, items |-> << >>]
        ELSE IF r.item = None
        THEN [panic |-> FALSE, diverged |-> FALSE, items |-> << >>]
        ELSE IF fuel = 0
        THEN [panic |-> FALSE, diverged |-> TRUE, items |-> << >>]
        ELSE LET rest == ChildrenIter_collect(r.it, fuel - 1)
             IN  [panic |-> rest.panic, diverged |-> rest.diverged,
                  items |-> r.item \o rest.items]

children(id) ==
    LET it == ChildrenIter_new(id)
    IN  IF it.panic THEN [panic |-> TRUE, diverged |-> FALSE, items |-> << >>]
        ELSE ChildrenIter_collect([current_id |-> it.current_id,
                                   max_id |-> it.max_id], Len(nodes))

------------------------------------------------------------------------------
(* Calls of the query methods: they borrow the tree and change none of it. *)

call_get(id) ==
    /\ call' = [op |-> "get", arg |-> id, panic |-> FALSE, ret |-> get(id)]
    /\ UNCHANGED <<nodes, parent_stack, overflow_checks, pushed, returned,
                   open_at_push, saved, pc>>

call_descendents(id) ==
    /\ call' = [op |-> "descendents", arg |-> id,
                panic |-> descendents(id).panic, ret |-> descendents(id)]
    /\ UNCHANGED <<nodes, parent_stack, overflow_checks, pushed, returned,
                   open_at_push, saved, pc>>

call_parents(id) ==
    /\ call' = [op |-> "parents", arg |-> id, panic |-> parents(id).panic,
                ret |-> parents(id)]
    /\ UNCHANGED <<nodes, parent_stack, overflow_checks, pushed, returned,
                   open_at_push, saved, pc>>

call_children(id) ==
    /\ call' = [op |-> "children", arg |-> id, panic |-> children(id).panic,
                ret |-> children(id)]
    /\ UNCHANGED <<nodes, parent_stack, overflow_checks, pushed, returned,
                   open_at_push, saved, pc>>

------------------------------------------------------------------------------

\* Tree::new / Tree::default: no nodes, empty parent stack.
Init ==
    /\ nodes = << >>
    /\ parent_stack = << >>
    /\ overflow_checks \in BOOLEAN
    /\ call = [op |-> "new", arg |-> 0, panic |-> FALSE, ret |-> None]
    /\ pushed = << >>
    /\ returned = << >>
    /\ open_at_push = << >>
    /\ saved = None
    /\ pc = 0

Next ==
    \/ \E value \in Values : push(value)
    \/ up
    \/ \E id \in QueryIds : call_get(id)
    \/ \E id \in QueryIds : call_descendents(id)
    \/ \E id \in QueryIds : call_parents(id)
    \/ \E id \in QueryIds : call_children(id)

Spec == Init /\ [][Next]_vars

------------------------------------------------------------------------------
(* Vocabulary of the properties                                            *)

ValidIds == 0..(len - 1)

ValuesOf(ns) == [k \in 1..Len(ns) |-> ns[k].value]

\* The indices of a sequence of (index, node) items.
IdSeq(items) == [k \in 1..Len(items) |-> items[k][1]]

IdSet(items) == {items[k][1] : k \in 1..Len(items)}

Reverse(s) == [k \in 1..Len(s) |-> s[Len(s) + 1 - k]]

\* Node i was on the parent stack when node j was pushed.
OpenAtPush(i, j) ==
    \E k \in 1..Len(open_at_push[j + 1]) : open_at_push[j + 1][k] = i

\* The parent chain of node j (j excluded) passes through node i.
RECURSIVE ChainPasses(_, _, _)
ChainPasses(i, j, fuel) ==
    LET p == nodes[j + 1].parent
    IN  IF p = j \/ p >= len \/ fuel = 0 THEN FALSE
        ELSE p = i \/ ChainPasses(i, p, fuel - 1)

\* The root under which node j was pushed: the bottom of the parent stack at
\* that time, or j itself if the stack was empty.
RootOf(j) ==
    IF open_at_push[j + 1] = << >> THEN j ELSE open_at_push[j + 1][1]

\* The indices j >= from, ascending, of the nodes other than id whose parent
\* is id.
RECURSIVE ChildIdsFrom(_, _)
ChildIdsFrom(id, from) ==
    IF from >= len THEN << >>
    ELSE (IF nodes[from + 1].parent = id /\ from # id
          THEN <<from>> ELSE << >>) \o ChildIdsFrom(id, from + 1)

\* A step that is a call of push / of up.
PushStep == pushed' # pushed

UpStep == call'.op = "up" /\ call' # call

------------------------------------------------------------------------------
(* C1: len() is the number of push calls, the k-th push returned k, and    *)
(* iter, all and into_iter yield the pushed values in push-call order, in  *)
(* every state push/up can reach (so up changes neither).                  *)
C1_PushOrder ==
    /\ len = Len(pushed)
    /\ Len(returned) = Len(pushed)
    /\ \A k \in 1..Len(returned) : returned[k] = k - 1
    /\ ValuesOf(iter) = pushed
    /\ ValuesOf(all) = pushed
    /\ ValuesOf(into_iter) = pushed

C1_Witness ==
    /\ len >= 3
    /\ call.op = "up"
    /\ pushed[1] # pushed[2]
    /\ pushed[2] = pushed[3]

(* C2: for every node i with descendant count d, the nodes i+1 .. i+d are  *)
(* exactly the nodes whose parent chain passes through i, which are the    *)
(* nodes pushed while i was on the parent stack; d is their number; and    *)
(* descendents(i) is that block.                                           *)
C2_DescendantBlock ==
    \A i \in ValidIds :
        LET d == nodes[i + 1].num_descendants
        IN  /\ i + d <= len - 1
            /\ \A j \in ValidIds :
                   /\ (i + 1 <= j /\ j <= i + d) <=> ChainPasses(i, j, len)
                   /\ ChainPasses(i, j, len) <=> OpenAtPush(i, j)
            /\ d = Cardinality({j \in ValidIds : OpenAtPush(i, j)})
            /\ descendents(i) = [panic |-> FALSE, start |-> i + 1,
                                 items |-> [k \in 1..d |-> nodes[i + 1 + k]]]

C2_Witness ==
    /\ len = 4
    /\ call.op = "descendents"
    /\ call.arg = 0
    /\ ~call.panic
    /\ Len(call.ret.items) = 2
    /\ nodes[2].num_descendants = 1

(* C3: for every valid id, children(id) yields exactly the nodes other     *)
(* than id whose parent is id, in creation order, and that is              *)
(* descendents(id) filtered by parent = id.                                *)
C3_ChildrenJump ==
    \A id \in ValidIds :
        LET c == children(id)
        IN  /\ ~c.panic
            /\ ~c.diverged
            /\ IdSeq(c.items) = ChildIdsFrom(id, 0)
            /\ \A k \in 1..Len(c.items) :
                   c.items[k][2] = nodes[c.items[k][1] + 1]
            /\ [k \in 1..Len(c.items) |-> c.items[k][2]]
                   = SelectSeq(descendents(id).items,
                               LAMBDA n : n.parent = id)

C3_Witness ==
    /\ call.op = "children"
    /\ call.arg = 0
    /\ ~call.panic
    /\ IdSeq(call.ret.items) = <<1, 3>>
    /\ nodes[2].num_descendants = 1

(* C4: for every valid id, parents(id) yields id's parent, then that       *)
(* node's parent, and so on, one per generation, ending with the root of   *)
(* id's tree; it never yields id and yields nothing when id is a root.     *)
C4_ParentsChain ==
    \A id \in ValidIds :
        LET r == parents(id)
            n == Len(r.items)
            at(k) == IF k = 0 THEN id ELSE r.items[k][1]
        IN  /\ ~r.panic
            /\ ~r.diverged
            /\ \A k \in 1..n :
                   /\ r.items[k][1] = nodes[at(k - 1) + 1].parent
                   /\ r.items[k][1] # at(k - 1)
                   /\ r.items[k][2] = nodes[r.items[k][1] + 1]
                   /\ r.items[k][1] # id
            /\ nodes[at(n) + 1].parent = at(n)
            /\ at(n) = RootOf(id)
            /\ IdSeq(r.items) = Reverse(open_at_push[id + 1])
            /\ (nodes[id + 1].parent = id) <=> (n = 0)

C4_Witness ==
    /\ call.op = "parents"
    /\ call.arg = 3
    /\ IdSeq(call.ret.items) = <<2, 1>>
    /\ nodes[2].parent = 1

(* C5: up() returns the id of the node that is current after the pop, the  *)
(* new top of the parent stack, or nothing if the stack is then empty.     *)
C5_UpReturnsNewTop ==
    call.op = "up" =>
        call.ret = IF parent_stack = << >> THEN None
                   ELSE Some(parent_stack[Len(parent_stack)])

\* What a push step does to the tree.
C6_PushStep ==
    PushStep =>
        LET id == Len(nodes)
        IN  /\ Len(nodes') = Len(nodes) + 1
            /\ call'.op = "push"
            /\ ~call'.panic
            /\ call'.ret = id
            /\ nodes'[id + 1] =
                   Node(call'.arg,
                        IF parent_stack = << >> THEN id
                        ELSE parent_stack[Len(parent_stack)],
                        0)
            /\ \A i \in 0..(id - 1) :
                   nodes'[i + 1] =
                       IF \E k \in 1..Len(parent_stack) : parent_stack[k] = i
                       THEN [nodes[i + 1] EXCEPT !.num_descendants = @ + 1]
                       ELSE nodes[i + 1]
            /\ parent_stack' # << >>
            /\ parent_stack'[Len(parent_stack')] = id

(* C6: push appends exactly one node, at index len, which it returns, with *)
(* count 0 and parent the top of the parent stack (its own index if the    *)
(* stack is empty); it adds exactly 1 to the count of every node on the    *)
(* parent stack and changes no other node; afterwards the new node is the  *)
(* top of the parent stack.                                                *)
C6_Push == [][C6_PushStep]_vars

C6_Witness ==
    /\ call.op = "push"
    /\ call.ret = 2
    /\ parent_stack = <<0, 1, 2>>
    /\ nodes[1].num_descendants = 2

\* What a push onto a parent stack emptied by up does.
C7_NewRootStep ==
    (PushStep /\ parent_stack = << >> /\ nodes # << >>) =>
        /\ nodes'[Len(nodes')].parent = Len(nodes)
        /\ \A i \in 1..Len(nodes) :
               nodes'[i].num_descendants = nodes[i].num_descendants

\* Nodes under different roots are in none of each other's query results.
C7_Independent ==
    \A a \in ValidIds : \A b \in ValidIds :
        RootOf(a) # RootOf(b) =>
            /\ b \notin IdSet(parents(a).items)
            /\ ~children(a).panic
            /\ b \notin IdSet(children(a).items)
            /\ ~descendents(a).panic
            /\ ~(descendents(a).start <= b
                 /\ b < descendents(a).start + Len(descendents(a).items))

(* C7: a push made with the parent stack emptied by up() creates a node    *)
(* that is its own parent and changes no existing descendant count; and    *)
(* nodes under different roots never appear in each other's parents,       *)
(* children or descendents.                                                *)
C7_Forest == [][C7_NewRootStep]_vars /\ []C7_Independent

C7_Witness ==
    /\ len = 4
    /\ RootOf(1) = 0
    /\ RootOf(3) = 2
    /\ nodes[3].parent = 2
    /\ nodes[1].num_descendants = 1
    /\ call.op = "children"
    /\ call.arg = 2
    /\ IdSeq(call.ret.items) = <<3>>

(* C8: descendents(id) with id >= len() returns an empty slice and does    *)
(* not panic.                                                              *)
C8_DescendentsTolerant ==
    (call.op = "descendents" /\ call.arg >= len) =>
        /\ ~call.panic
        /\ call.ret.items = << >>

(* C9: for every id >= len(), up to the largest usize, get(id) returns     *)
(* nothing and parents(id) and children(id) yield nothing, without panic   *)
(* or wrap-around.                                                         *)
C9_OutOfBoundsTolerant ==
    /\ (call.op = "get" /\ call.arg >= len) => call.ret = None
    /\ (call.op \in {"parents", "children"} /\ call.arg >= len) =>
           /\ ~call.panic
           /\ call.ret.items = << >>

\* What an up step on an empty parent stack does.
C10_SurplusUpStep ==
    (UpStep /\ parent_stack = << >>) =>
        /\ call'.ret = None
        /\ nodes' = nodes
        /\ parent_stack' = << >>

(* C10: up() with an empty parent stack returns nothing and changes        *)
(* neither the nodes nor the parent stack.                                 *)
C10_SurplusUp == [][C10_SurplusUpStep]_vars

C10_Witness ==
    /\ call.op = "up"
    /\ call.ret = None
    /\ parent_stack = << >>
    /\ len >= 2

\* What last() says about the push that follows it.
C11_LastIsCurrentStep ==
    (PushStep /\ last # None) =>
        /\ last = Some(nodes[Len(nodes)])
        /\ nodes'[Len(nodes')].parent = Len(nodes) - 1

(* C11: on a non-empty tree last() returns the current node: the next push *)
(* adds a child to it, so the pushed node's parent is the index of the     *)
(* node last() returned.                                                   *)
C11_LastIsCurrent == [][C11_LastIsCurrentStep]_vars

(* C12 as stated: for every non-root id, the root of id's tree is not      *)
(* among the nodes parents(id) yields.                                     *)
C12_ParentsExcludeRoot ==
    (call.op = "parents" /\ call.arg < len /\ RootOf(call.arg) # call.arg) =>
        RootOf(call.arg) \notin IdSet(call.ret.items)

(* C12 amended: for every non-root id, parents(id) ends, and yields the    *)
(* ancestors of id nearest first up to and including the root of id's      *)
(* tree, which is the last node yielded.                                   *)
C12_ParentsIncludeRoot ==
    (call.op = "parents" /\ call.arg < len /\ RootOf(call.arg) # call.arg) =>
        LET ids == IdSeq(call.ret.items)
        IN  /\ ~call.ret.diverged
            /\ ids # << >>
            /\ ids[Len(ids)] = RootOf(call.arg)
            /\ ids = Reverse(open_at_push[call.arg + 1])
            /\ \A k \in 1..Len(ids) :
                   /\ ids[k] < (IF k = 1 THEN call.arg ELSE ids[k - 1])
                   /\ OpenAtPush(ids[k], call.arg)

C12_Witness ==
    /\ call.op = "parents"
    /\ call.arg = 2
    /\ len >= 3
    /\ RootOf(2) = 0
    /\ IdSeq(call.ret.items) = <<1, 0>>

C15_StableStep ==
    /\ Len(nodes') >= Len(nodes)
    /\ \A i \in ValidIds :
           LET open == \E k \in 1..Len(parent_stack) : parent_stack[k] = i
               openAfter == \E k \in 1..Len(parent_stack') :
                                parent_stack'[k] = i
           IN  /\ nodes'[i + 1].value = nodes[i + 1].value
               /\ nodes'[i + 1].parent = nodes[i + 1].parent
               /\ nodes'[i + 1].num_descendants # nodes[i + 1].num_descendants
                      => /\ PushStep
                         /\ open
                         /\ nodes'[i + 1].num_descendants
                                = nodes[i + 1].num_descendants + 1
               /\ ~open => ~openAfter

(* C15: no push or up changes an existing node's index, value or parent or *)
(* removes a node; a descendant count changes only by a push made while    *)
(* the node is on the parent stack, and a node that has left the stack     *)
(* never returns to it, so its count is final.                             *)
C15_Stable == [][C15_StableStep]_vars

C15_Witness ==
    /\ call.op = "push"
    /\ len = 4
    /\ parent_stack = <<0, 3>>
    /\ nodes[1].num_descendants = 3
    /\ nodes[2].num_descendants = 1

(* C16: for every reachable tree and every starting id, valid or not, the  *)
(* parents(id) walk ends after at most id steps: every node pushed under a *)
(* parent has a parent index strictly smaller than its own, every other    *)
(* node is its own parent, and so the walk reaches a self-parented root.   *)
C16_ParentsTerminates ==
    /\ \A i \in ValidIds :
           IF open_at_push[i + 1] = << >>
           THEN nodes[i + 1].parent = i
           ELSE nodes[i + 1].parent < i
    /\ \A id \in QueryIds :
           LET r == parents(id)
           IN  /\ ~r.diverged
               /\ ~r.panic
               /\ Len(r.items) <= id
               /\ id >= len => r.items = << >>
               /\ (id < len /\ r.items # << >>) =>
                      LET top == r.items[Len(r.items)][1]
                      IN  nodes[top + 1].parent = top

C16_Witness ==
    /\ call.op = "parents"
    /\ call.arg = 3
    /\ ~call.ret.diverged
    /\ Len(call.ret.items) = 3

(* C18: the parent stack is a chain of open ancestors: its entries are     *)
(* valid indices, strictly increasing from bottom to top; the bottom entry *)
(* is a root and every other entry's parent is the entry below it; every   *)
(* entry s has s + descendant count of s = len - 1; and so the             *)
(* self.nodes[parent] indexing in push is never out of bounds.             *)
C18_StackChain ==
    /\ \A k \in 1..Len(parent_stack) :
           LET s == parent_stack[k]
           IN  /\ s < len
               /\ IF k = 1 THEN nodes[s + 1].parent = s
                  ELSE /\ parent_stack[k - 1] < s
                       /\ nodes[s + 1].parent = parent_stack[k - 1]
               /\ s + nodes[s + 1].num_descendants = len - 1
    /\ ~increment_parents_panics(nodes, parent_stack)
    /\ call.op = "push" => ~call.panic

C18_Witness ==
    /\ call.op = "push"
    /\ ~call.panic
    /\ len = 4
    /\ parent_stack = <<1, 2, 3>>

\* The iterator states a children walk goes through: the one it starts in
\* and the one after each call of next, up to the first with the cursor
\* past max_id.
RECURSIVE ChildrenIter_states(_, _)
ChildrenIter_states(it, fuel) ==
    IF it.current_id > it.max_id \/ fuel = 0 THEN <<it>>
    ELSE <<it>> \o ChildrenIter_states(ChildrenIter_next(it).it, fuel - 1)

(* C20: for every valid id, throughout a children(id) walk, a cursor that  *)
(* is <= max_id is a valid index whose node has parent id, so next yields  *)
(* a node at every call before the walk is finished, and the walk finishes *)
(* with the cursor equal to id + descendant count of id + 1.               *)
C20_ChildrenCursor ==
    \A id \in ValidIds :
        LET new == ChildrenIter_new(id)
            states == ChildrenIter_states(
                          [current_id |-> new.current_id,
                           max_id |-> new.max_id], len + 1)
            final == states[Len(states)]
        IN  /\ ~new.panic
            /\ \A k \in 1..Len(states) :
                   LET it == states[k]
                   IN  it.current_id <= it.max_id =>
                           /\ it.current_id < len
                           /\ nodes[it.current_id + 1].parent = id
                           /\ ~ChildrenIter_next(it).panic
                           /\ ChildrenIter_next(it).item # None
            /\ final.current_id > final.max_id
            /\ final.current_id = id + nodes[id + 1].num_descendants + 1

C20_Witness ==
    /\ call.op = "children"
    /\ call.arg = 1
    /\ ~call.panic
    /\ IdSeq(call.ret.items) = <<2, 3>>
    /\ len = 4

------------------------------------------------------------------------------
(* The test builder: tests.rs build(), one call after the other            *)

P(v) == <<"push", v>>
U == <<"up">>

\* The calls of build() in order: 19 pushes of the values 0..18.
BuildCalls ==
    <<P(0), P(1), P(2), U, U,
      P(3), P(4), P(5), U, U, P(6), U, U,
      P(7), P(8), P(9), U, P(10), U, U, P(11), P(12), U, P(13), U, U, U,
      P(14), U, U,
      P(15), P(16), P(17), U, U, P(18)>>

\* The ids the tests query the built tree with: 0..19, one past the last.
BuildIds ==
    0..Cardinality({k \in 1..Len(BuildCalls) : BuildCalls[k][1] = "push"})

\* The next call of build().
build_step ==
    /\ pc < Len(BuildCalls)
    /\ LET c == BuildCalls[pc + 1]
       IN  IF c[1] = "push" THEN Tree_push(c[2]) ELSE Tree_up
    /\ pc' = pc + 1
    /\ UNCHANGED saved

NextBuild ==
    \/ build_step
    \/ \E id \in BuildIds : call_get(id)
    \/ \E id \in BuildIds : call_parents(id)
    \/ \E id \in BuildIds : call_children(id)

SpecBuild == Init /\ [][NextBuild]_vars

\* The values of a sequence of (index, node) items.
ItemValues(items) == [k \in 1..Len(items) |-> items[k][2].value]

(* C13: after the calls of the test builder, len() is 19, the descendant   *)
(* counts in arena order are 14,1,0,3,1,0,0,6,2,0,0,2,0,0,0,3,1,0,0,       *)
(* children(7) has the values 8, 11, parents(12) the values 11, 7, 0, and  *)
(* children(19) is empty.                                                  *)
C13_BuiltTree ==
    pc = Len(BuildCalls) =>
        /\ len = 19
        /\ ValuesOf(all) = [k \in 1..19 |-> k - 1]
        /\ [k \in 1..len |-> nodes[k].num_descendants] =
               <<14, 1, 0, 3, 1, 0, 0, 6, 2, 0, 0, 2, 0, 0, 0, 3, 1, 0, 0>>
        /\ ~children(7).panic
        /\ ItemValues(children(7).items) = <<8, 11>>
        /\ ItemValues(parents(12).items) = <<11, 7, 0>>
        /\ ~children(19).panic
        /\ children(19).items = << >>

C13_Witness ==
    /\ pc = Len(BuildCalls)
    /\ len = 19
    /\ parent_stack = <<15, 18>>
    /\ call.op = "children"
    /\ call.arg = 7
    /\ ItemValues(call.ret.items) = <<8, 11>>

------------------------------------------------------------------------------
(* Two trees: a clone taken earlier, compared with the tree as it is now   *)

\* The tree as a value: the two fields of the struct.
self == [nodes |-> nodes, parent_stack |-> parent_stack]

\* impl Clone for Tree: both fields are cloned.
Tree_clone(t) == [nodes |-> t.nodes, parent_stack |-> t.parent_stack]

\* impl PartialEq for Node: value, parent and num_descendants.
Node_eq(a, b) ==
    /\ a.value = b.value
    /\ a.parent = b.parent
    /\ a.num_descendants = b.num_descendants

\* Vec<Node> == Vec<Node>: same length, equal element by element.
Vec_eq(a, b) ==
    /\ Len(a) = Len(b)
    /\ \A k \in 1..Len(a) : Node_eq(a[k], b[k])

\* Slip: the transient parent stack is left out of the comparison.
Tree_eq_nodes_only(a, b) == Vec_eq(a.nodes, b.nodes)

\* impl PartialEq for Tree: self.nodes == other.nodes &&
\* self.parent_stack == other.parent_stack
Tree_eq(a, b) ==
    /\ Vec_eq(a.nodes, b.nodes)
    /\ a.parent_stack = b.parent_stack

\* What every query method returns on the tree, for every id.
query_results ==
    [get |-> [id \in QueryIds |-> get(id)],
     first |-> first,
     last |-> last,
     all |-> all,
     iter |-> iter,
     descendents |-> [id \in QueryIds |-> descendents(id)],
     parents |-> [id \in QueryIds |-> parents(id)],
     children |-> [id \in QueryIds |-> children(id)]]

\* let saved = tree.clone(), followed by a call of every query method on
\* the clone, which at this point has the fields of the tree itself.
clone_and_query ==
    /\ saved' = Some([tree |-> Tree_clone(self), results |-> query_results])
    /\ call' = [op |-> "clone", arg |-> 0, panic |-> FALSE, ret |-> None]
    /\ UNCHANGED <<nodes, parent_stack, overflow_checks, pushed, returned,
                   open_at_push, pc>>

\* tree == saved
call_eq ==
    /\ saved # None
    /\ call' = [op |-> "eq", arg |-> 0, panic |-> FALSE,
                ret |-> Tree_eq(self, saved[1].tree)]
    /\ UNCHANGED <<nodes, parent_stack, overflow_checks, pushed, returned,
                   open_at_push, saved, pc>>

NextClone ==
    \/ \E value \in Values : push(value)
    \/ up
    \/ clone_and_query
    \/ call_eq

SpecClone == Init /\ [][NextClone]_vars

\* A step that takes the clone and calls the queries leaves the tree alone.
C17_QueryFrameStep ==
    (saved' # saved \/ (call'.op = "clone" /\ call' # call)) =>
        /\ nodes' = nodes
        /\ parent_stack' = parent_stack

\* A clone with the tree's node sequence got the results the tree gives now,
\* whatever the two parent stacks are.
C17_SameNodesSameResults ==
    (saved # None /\ Vec_eq(saved[1].tree.nodes, nodes)) =>
        saved[1].results = query_results

(* C17: get, first, last, all, iter, descendents, parents and children     *)
(* change neither the nodes nor the parent stack, and two trees with the   *)
(* same node sequence return the same results for every query and id,      *)
(* also when their parent stacks differ.                                   *)
C17_QueriesReadNodesOnly ==
    [][C17_QueryFrameStep]_vars /\ []C17_SameNodesSameResults

C17_Witness ==
    /\ saved # None
    /\ len = 4
    /\ saved[1].tree.nodes = nodes
    /\ saved[1].tree.parent_stack = <<0, 1, 3>>
    /\ parent_stack = << >>
    /\ saved[1].results = query_results
    /\ call.op = "up"

(* C19: Tree equality compares the parent stack as well as the nodes: two  *)
(* trees are equal iff both are equal, so a tree and a clone of it with    *)
(* the same nodes compare unequal once their parent stacks differ, while   *)
(* every query returns the same on both.                                   *)
C19_EqComparesStack ==
    (call.op = "eq" /\ saved # None) =>
        LET other == saved[1].tree
        IN  /\ call.ret <=> (other.nodes = nodes
                             /\ other.parent_stack = parent_stack)
            /\ (other.nodes = nodes /\ other.parent_stack # parent_stack) =>
                   /\ call.ret = FALSE
                   /\ saved[1].results = query_results

C19_Witness ==
    /\ call.op = "eq"
    /\ call.ret = FALSE
    /\ saved # None
    /\ len >= 2
    /\ saved[1].tree.nodes = nodes
    /\ saved[1].tree.parent_stack = Append(parent_stack, len - 1)
    /\ saved[1].results = query_results

====
